---- MODULE Spec2Model ----
(***************************************************************************)
(* The mini-ejs template engine of template-node (_lib/mini-ejs.js):       *)
(* tokenize, the trim pass and program assembly of compileTemplate, and    *)
(* the evaluation of the assembled program by vm.runInContext.             *)
(*                                                                         *)
(* A string is a sequence of one-character strings.                        *)
(*                                                                         *)
(* The bootstrap script of template-node (bootstrap.js): the steps of main *)
(* on the files of the project, the failures of the operations they await, *)
(* and the runs of the script that follow a failed run.                    *)
(***************************************************************************)
EXTENDS Integers, Sequences, FiniteSets, TLC

VARIABLES
    pc,        \* "call" | "compiled" | "returned" | "thrown"
    str,       \* miniEjs argument: the template text
    data,      \* miniEjs argument: the data mapping
    tokens0,   \* compileTemplate: the result of tokenize(str)
    tokens,    \* compileTemplate: the tokens after the trim pass
    code,      \* miniEjs: the program text compileTemplate returned
    context,   \* miniEjs: the context object after vm.runInContext
    log,       \* the assignments the program executed, in order
    result,    \* what miniEjs returned, or the error it threw
    session,   \* the caller: the calls it makes and the results it got
    argv,      \* bootstrap: the flags of process.argv
    processEnv, \* bootstrap: process.env (SKIPREMOVAL, NVM_DIR)
    disk,      \* bootstrap: the files and directories of the project
    step,      \* bootstrap: the step main is about to await, "done", "failed"
    trace,     \* bootstrap: the steps this run of main has completed
    runs,      \* bootstrap: the number of runs of the script so far
    failures,  \* bootstrap: the operations that have failed so far
    status     \* bootstrap: the error of the run and the exit status

engineVars ==
    <<pc, str, data, tokens0, tokens, code, context, log, result, session>>

bootVars == <<argv, processEnv, disk, step, trace, runs, failures, status>>

vars == <<engineVars, bootVars>>

\* -------------------------------------------------------------- bounds

MaxLit == 3

MaxPiece == 2

\* The number of calls of miniEjs one caller makes
MaxCalls == 2

\* The number of runs of the bootstrap script
MaxRuns == 3

\* The number of operations that fail for a reason outside the project
MaxFailures == 2

\* ---------------------------------------------------------- characters

SP == " "
TAB == "\t"
LF == "\n"
CR == "\r"
DQ == "\""
BS == "\\"

Letters ==
    {"a", "b", "d", "e", "f", "i", "l", "m", "n", "o", "r",
     "B", "F", "H", "W", "X", "Z"}

\* \s of the two trim regexes, restricted to the characters of the model
IsSpace(c) == c \in {SP, TAB, LF, CR}

\* ------------------------------------------------------------- strings

RECURSIVE Concat(_)
Concat(ss) == IF ss = <<>> THEN <<>> ELSE Head(ss) \o Concat(Tail(ss))

RECURSIVE Join(_, _)
Join(ss, sep) ==
    IF ss = <<>> THEN <<>>
    ELSE IF Len(ss) = 1 THEN ss[1]
    ELSE ss[1] \o sep \o Join(Tail(ss), sep)

StartsWithAt(s, i, p) ==
    /\ i + Len(p) - 1 <= Len(s)
    /\ \A k \in 1..Len(p) : s[i + k - 1] = p[k]

\* /^\s/: one whitespace character only
StripLeadingOne(s) == IF s # <<>> /\ IsSpace(Head(s)) THEN Tail(s) ELSE s

\* value.replace(/^\s*/, '')
RECURSIVE StripLeading(_)
StripLeading(s) ==
    IF s # <<>> /\ IsSpace(Head(s)) THEN StripLeading(Tail(s)) ELSE s

\* / *$/: blanks only
RECURSIVE StripTrailingBlanks(_)
StripTrailingBlanks(s) ==
    IF s # <<>> /\ s[Len(s)] = SP
    THEN StripTrailingBlanks(SubSeq(s, 1, Len(s) - 1))
    ELSE s

\* value.replace(/\s*$/, '')
RECURSIVE StripTrailing(_)
StripTrailing(s) ==
    IF s # <<>> /\ IsSpace(s[Len(s)])
    THEN StripTrailing(SubSeq(s, 1, Len(s) - 1))
    ELSE s

\* ------------------------------------------------------------ tokenize

createTextToken(value) == [type |-> "text", value |-> value]

\* The expression kept without the whitespace around it
createPrintTokenTrimmed(value, trim) ==
    [type |-> "print", value |-> StripTrailing(StripLeading(value)),
     trim |-> trim]

createPrintToken(value, trim) ==
    [type |-> "print", value |-> value, trim |-> trim]

\* A code block pushed without its trim flags
createCodeTokenUntrimmed(value, trim) ==
    [type |-> "code", value |-> value,
     trim |-> [backwards |-> FALSE, forward |-> FALSE]]

createCodeToken(value, trim) ==
    [type |-> "code", value |-> value, trim |-> trim]

\* /(<%=?|-?%>)/: no left-trim openers
DelimiterAtNoLeftTrim(s, i) ==
    IF StartsWithAt(s, i, <<"<", "%">>)
    THEN (IF i + 2 <= Len(s) /\ s[i + 2] = "=" THEN 3 ELSE 2)
    ELSE IF StartsWithAt(s, i, <<"-", "%", ">">>) THEN 3
    ELSE IF StartsWithAt(s, i, <<"%", ">">>) THEN 2
    ELSE 0

\* The length of the match of /(<%-?=?|-?%>)/ at position i of s, 0 if none.
DelimiterAt(s, i) ==
    IF StartsWithAt(s, i, <<"<", "%">>)
    THEN LET dash == i + 2 <= Len(s) /\ s[i + 2] = "-"
             j    == IF dash THEN i + 3 ELSE i + 2
             eq   == j <= Len(s) /\ s[j] = "="
         IN  2 + (IF dash THEN 1 ELSE 0) + (IF eq THEN 1 ELSE 0)
    ELSE IF StartsWithAt(s, i, <<"-", "%", ">">>) THEN 3
    ELSE IF StartsWithAt(s, i, <<"%", ">">>) THEN 2
    ELSE 0

\* str.split(/(<%-?=?|-?%>)/g): text, delimiter, text, ..., text
RECURSIVE SplitFrom(_, _, _, _)
SplitFrom(s, i, cur, acc) ==
    IF i > Len(s) THEN Append(acc, cur)
    ELSE LET m == DelimiterAt(s, i)
         IN  IF m > 0
             THEN SplitFrom(s, i + m, <<>>,
                            acc \o <<cur, SubSeq(s, i, i + m - 1)>>)
             ELSE SplitFrom(s, i + 1, Append(cur, s[i]), acc)

Split(s) == SplitFrom(s, 1, <<>>, <<>>)

UnclosedError == "Error: Unclosed <%= expression, missing %>"

\* segments[i], undefined past the end
SegmentAt(segments, i) ==
    IF i <= Len(segments) THEN segments[i] ELSE <<"undefined">>

\* The loop without the check of the closer: an opener that is not closed is
\* pushed as text
RECURSIVE TokenizeFromLenient(_, _, _)
TokenizeFromLenient(segments, i, toks) ==
    IF i > Len(segments) THEN [ok |-> TRUE, tokens |-> toks]
    ELSE LET seg    == segments[i]
             closer == SegmentAt(segments, i + 2)
             trimForward == (closer = <<"-", "%", ">">>)
             closed == trimForward \/ closer = <<"%", ">">>
         IN  IF closed /\ (seg = <<"<", "%">> \/ seg = <<"<", "%", "-">>)
             THEN TokenizeFromLenient(segments, i + 3,
                    Append(toks, createCodeToken(segments[i + 1],
                       [backwards |-> (seg = <<"<", "%", "-">>),
                        forward |-> trimForward])))
             ELSE IF closed /\ (seg = <<"<", "%", "=">> \/ seg = <<"<", "%", "-", "=">>)
             THEN TokenizeFromLenient(segments, i + 3,
                    Append(toks, createPrintToken(segments[i + 1],
                       [backwards |-> (seg = <<"<", "%", "-", "=">>),
                        forward |-> trimForward])))
             ELSE TokenizeFromLenient(segments, i + 1,
                                      Append(toks, createTextToken(seg)))

\* The for loop of tokenize from index i (1-based) with the tokens pushed so
\* far: [ok |-> TRUE, tokens |-> ...] or [ok |-> FALSE, error |-> ...].
RECURSIVE TokenizeFrom(_, _, _)
TokenizeFrom(segments, i, toks) ==
    IF i > Len(segments) THEN [ok |-> TRUE, tokens |-> toks]
    ELSE LET seg    == segments[i]
             closer == SegmentAt(segments, i + 2)
             trimForward == (closer = <<"-", "%", ">">>)
             closed == trimForward \/ closer = <<"%", ">">>
         IN  IF seg = <<"<", "%">> \/ seg = <<"<", "%", "-">>
             THEN IF ~closed THEN [ok |-> FALSE, error |-> UnclosedError]
                  ELSE TokenizeFrom(segments, i + 3,
                         Append(toks, createCodeToken(segments[i + 1],
                            [backwards |-> (seg = <<"<", "%", "-">>),
                             forward |-> trimForward])))
             ELSE IF seg = <<"<", "%", "=">> \/ seg = <<"<", "%", "-", "=">>
             THEN IF ~closed THEN [ok |-> FALSE, error |-> UnclosedError]
                  ELSE TokenizeFrom(segments, i + 3,
                         Append(toks, createPrintToken(segments[i + 1],
                            [backwards |-> (seg = <<"<", "%", "-", "=">>),
                             forward |-> trimForward])))
             ELSE TokenizeFrom(segments, i + 1,
                               Append(toks, createTextToken(seg)))

tokenize(s) == TokenizeFrom(Split(s), 1, <<>>)

\* ----------------------------------------------------- compileTemplate

\* The forward trim decided by the flag of the opener
TrimForwardAtByOpener(toks, i) ==
    IF /\ toks[i].trim.backwards
       /\ i < Len(toks)
       /\ toks[i + 1].type = "text"
    THEN [toks EXCEPT ![i + 1].value = StripLeading(@)]
    ELSE toks

\* The backward trim applied to the text after the block
TrimBackwardsAtNext(toks, i) ==
    IF /\ toks[i].trim.backwards
       /\ i < Len(toks)
       /\ toks[i + 1].type = "text"
    THEN [toks EXCEPT ![i + 1].value = StripTrailing(@)]
    ELSE toks

\* One iteration of the trim loop, for the token at index i.
TrimForwardAt(toks, i) ==
    IF /\ toks[i].trim.forward
       /\ i < Len(toks)
       /\ toks[i + 1].type = "text"
    THEN [toks EXCEPT ![i + 1].value = StripLeading(@)]
    ELSE toks

TrimBackwardsAt(toks, i) ==
    IF /\ toks[i].trim.backwards
       /\ i > 1
       /\ toks[i - 1].type = "text"
    THEN [toks EXCEPT ![i - 1].value = StripTrailing(@)]
    ELSE toks

\* The loop without its skip of text tokens: every text token is trimmed on
\* both sides
RECURSIVE TrimFromEveryText(_, _)
TrimFromEveryText(toks, i) ==
    IF i > Len(toks) THEN toks
    ELSE IF toks[i].type = "text"
    THEN TrimFromEveryText(
            [toks EXCEPT ![i].value = StripTrailing(StripLeading(@))], i + 1)
    ELSE TrimFromEveryText(TrimBackwardsAt(TrimForwardAt(toks, i), i), i + 1)

\* The trim loop from index i.
RECURSIVE TrimFrom(_, _)
TrimFrom(toks, i) ==
    IF i > Len(toks) THEN toks
    ELSE IF toks[i].type = "text" THEN TrimFrom(toks, i + 1)
    ELSE TrimFrom(TrimBackwardsAt(TrimForwardAt(toks, i), i), i + 1)

TrimPass(toks) == TrimFrom(toks, 1)

\* value.replace(/"/g, '\\"')
RECURSIVE EscapeQuotes(_)
EscapeQuotes(s) ==
    IF s = <<>> THEN <<>>
    ELSE IF Head(s) = DQ THEN <<BS, DQ>> \o EscapeQuotes(Tail(s))
    ELSE <<Head(s)>> \o EscapeQuotes(Tail(s))

\* value.replace(/\r?\n/g, '\\n')
RECURSIVE EscapeNewlines(_)
EscapeNewlines(s) ==
    IF s = <<>> THEN <<>>
    ELSE IF Len(s) >= 2 /\ s[1] = CR /\ s[2] = LF
    THEN <<BS, "n">> \o EscapeNewlines(SubSeq(s, 3, Len(s)))
    ELSE IF Head(s) = LF THEN <<BS, "n">> \o EscapeNewlines(Tail(s))
    ELSE <<Head(s)>> \o EscapeNewlines(Tail(s))

EscapeText(value) == EscapeNewlines(EscapeQuotes(value))

AppendPrefix == <<"o", SP, "+", "=", SP>>

\* A code token assembled like a print token
EvalSegmentCodeAppends(token) ==
    IF token.type \in {"print", "code"} THEN AppendPrefix \o token.value
    ELSE AppendPrefix \o <<DQ>> \o EscapeText(token.value) \o <<DQ>>

\* The callback of tokens.map
EvalSegment(token) ==
    IF token.type = "print" THEN AppendPrefix \o token.value
    ELSE IF token.type = "code" THEN token.value
    ELSE AppendPrefix \o <<DQ>> \o EscapeText(token.value) \o <<DQ>>

EvalSegments(toks) == [i \in 1..Len(toks) |-> EvalSegment(toks[i])]

\* compileTemplate after its call of tokenize: the trim pass and the
\* assembly of the program from the trimmed tokens
compileTokens(toks) ==
    LET trimmed == TrimPass(toks)
    IN  [tokens |-> trimmed, code |-> Join(EvalSegments(trimmed), <<";">>)]

\* compileTemplate(str): the tokens, the trimmed tokens and the program
compileTemplate(s) ==
    LET t == tokenize(s)
    IN  IF ~t.ok THEN [ok |-> FALSE, error |-> t.error]
        ELSE LET c == compileTokens(t.tokens)
             IN  [ok |-> TRUE, tokens0 |-> t.tokens, tokens |-> c.tokens,
                  code |-> c.code]

\* ------------------------------------------------- vm.runInContext
\* The program is evaluated as a script of the statements the templates of
\* the model can assemble: empty statements, blocks, if statements without
\* else, and expression statements made of identifiers, string literals and
\* the assignments = and +=.

BKSP == "<backspace>"
FF == "\f"

\* The lexer's result.
LexError == [ok |-> FALSE, toks |-> <<>>]

\* The character an escape sequence \e of a string literal stands for
\* (CharacterEscapeSequence: SingleEscapeCharacter or NonEscapeCharacter).
EscapeValue(e) ==
    CASE e = "n" -> <<LF>>
      [] e = "r" -> <<CR>>
      [] e = "b" -> <<BKSP>>
      [] e = "f" -> <<FF>>
      [] e \in {LF, CR} -> <<>>          \* LineContinuation
      [] OTHER -> <<e>>

\* The rest of a string literal whose opening quote has been read, from
\* position i: [ok, val, next]. A line terminator or the end of the program
\* inside the literal is a SyntaxError.
RECURSIVE ScanString(_, _, _)
ScanString(c, i, val) ==
    IF i > Len(c) THEN [ok |-> FALSE, val |-> <<>>, next |-> i]
    ELSE IF c[i] = DQ THEN [ok |-> TRUE, val |-> val, next |-> i + 1]
    ELSE IF c[i] \in {LF, CR} THEN [ok |-> FALSE, val |-> <<>>, next |-> i]
    ELSE IF c[i] = BS
    THEN IF i + 1 > Len(c) THEN [ok |-> FALSE, val |-> <<>>, next |-> i]
         ELSE IF c[i + 1] = CR /\ i + 2 <= Len(c) /\ c[i + 2] = LF
         THEN ScanString(c, i + 3, val)
         ELSE ScanString(c, i + 2, val \o EscapeValue(c[i + 1]))
    ELSE ScanString(c, i + 1, Append(val, c[i]))

RECURSIVE IdentifierEnd(_, _)
IdentifierEnd(c, i) ==
    IF i <= Len(c) /\ c[i] \in Letters THEN IdentifierEnd(c, i + 1) ELSE i

RECURSIVE LexFrom(_, _, _)
LexFrom(c, i, toks) ==
    IF i > Len(c) THEN [ok |-> TRUE, toks |-> toks]
    ELSE IF IsSpace(c[i]) THEN LexFrom(c, i + 1, toks)
    ELSE IF c[i] = DQ
    THEN LET s == ScanString(c, i + 1, <<>>)
         IN  IF ~s.ok THEN LexError
             ELSE LexFrom(c, s.next, Append(toks, [t |-> "str", v |-> s.val]))
    ELSE IF c[i] \in Letters
    THEN LET j == IdentifierEnd(c, i)
         IN  LexFrom(c, j, Append(toks, [t |-> "id", v |-> SubSeq(c, i, j - 1)]))
    ELSE IF StartsWithAt(c, i, <<"+", "=">>)
    THEN LexFrom(c, i + 2, Append(toks, [t |-> "p", v |-> <<"+", "=">>]))
    ELSE IF c[i] \in {"(", ")", "{", "}", ";", "="}
    THEN LexFrom(c, i + 1, Append(toks, [t |-> "p", v |-> <<c[i]>>]))
    ELSE LexError

Lex(c) == LexFrom(c, 1, <<>>)

Eof == [t |-> "eof", v |-> <<>>]

Peek(toks, st) == IF st.pos <= Len(toks) THEN toks[st.pos] ELSE Eof

PeekNext(toks, st) == IF st.pos + 1 <= Len(toks) THEN toks[st.pos + 1] ELSE Eof

IsPunct(tok, s) == tok.t = "p" /\ tok.v = s

IsIf(tok) == tok.t = "id" /\ tok.v = <<"i", "f">>

Advance(st) == [st EXCEPT !.pos = @ + 1]

Throw(st, e) == [st EXCEPT !.err = e]

\* The program segment a token position lies in: compileTemplate joins the
\* segments with ";" and no segment of the model holds a ";" of its own
\* outside a string literal.
SegmentOf(toks, pos) ==
    1 + Cardinality({k \in 1..(pos - 1) : IsPunct(toks[k], <<";">>)})

\* PrimaryExpression: a string literal or an identifier reference.
Primary(toks, st, live) ==
    LET tok == Peek(toks, st)
    IN  IF tok.t = "str" THEN [Advance(st) EXCEPT !.val = tok.v]
        ELSE IF tok.t = "id" /\ ~IsIf(tok)
        THEN IF ~live THEN [Advance(st) EXCEPT !.val = <<>>]
             ELSE IF tok.v \in DOMAIN st.env
             THEN [Advance(st) EXCEPT !.val = st.env[tok.v]]
             ELSE Throw(st, "ReferenceError")
        ELSE Throw(st, "SyntaxError")

\* x += y on strings: the new value of x
CompoundAssign(old, val) == old \o val

\* x = y in sloppy mode: the binding is created in the context when there is
\* none
Assign(env, name, val) ==
    [k \in DOMAIN env \cup {name} |-> IF k = name THEN val ELSE env[k]]

\* AssignmentExpression: identifier = or += AssignmentExpression, or a
\* primary. The reference of += is read before the right-hand side is
\* evaluated.
RECURSIVE Expression(_, _, _)
Expression(toks, st, live) ==
    LET tok == Peek(toks, st)
        op  == PeekNext(toks, st)
    IN  IF tok.t = "id" /\ ~IsIf(tok)
           /\ (IsPunct(op, <<"=">>) \/ IsPunct(op, <<"+", "=">>))
        THEN IF live /\ IsPunct(op, <<"+", "=">>) /\ tok.v \notin DOMAIN st.env
             THEN Throw(st, "ReferenceError")
             ELSE LET r == Expression(toks, [st EXCEPT !.pos = @ + 2], live)
                  IN  IF r.err # "" \/ ~live THEN r
                      ELSE LET new == IF IsPunct(op, <<"=">>) THEN r.val
                                      ELSE CompoundAssign(r.env[tok.v], r.val)
                           IN  [r EXCEPT !.env = Assign(@, tok.v, new),
                                         !.val = new]
        ELSE Primary(toks, st, live)

\* The record of an executed expression statement or if condition: the
\* segment it stands in, its value, and the accumulator before and after.
Executed(toks, st, r, kind) ==
    [r EXCEPT !.log = Append(@, [seg |-> SegmentOf(toks, st.pos),
                                 kind |-> kind,
                                 value |-> r.val,
                                 before |-> st.env[<<"o">>],
                                 after |-> r.env[<<"o">>]])]

\* Every if statement taken
ToBooleanAlways(val) == TRUE

\* Whether the value of an if condition selects the statement.
ToBoolean(val) == val # <<>>

RECURSIVE Statement(_, _, _)
RECURSIVE StatementList(_, _, _)

\* One Statement at st.pos; live is FALSE inside a branch not taken, whose
\* statements are parsed and not executed.
Statement(toks, st, live) ==
    LET tok == Peek(toks, st)
    IN  IF st.err # "" THEN st
        ELSE IF IsPunct(tok, <<";">>) THEN Advance(st)
        ELSE IF IsPunct(tok, <<"{">>)
        THEN LET b == StatementList(toks, Advance(st), live)
             IN  IF b.err # "" THEN b
                 ELSE IF IsPunct(Peek(toks, b), <<"}">>) THEN Advance(b)
                 ELSE Throw(b, "SyntaxError")
        ELSE IF IsIf(tok)
        THEN IF ~IsPunct(PeekNext(toks, st), <<"(">>) THEN Throw(st, "SyntaxError")
             ELSE LET c == Expression(toks, [st EXCEPT !.pos = @ + 2], live)
                  IN  IF c.err # "" THEN c
                      ELSE IF ~IsPunct(Peek(toks, c), <<")">>)
                      THEN Throw(c, "SyntaxError")
                      ELSE Statement(toks,
                                     Advance(IF live THEN Executed(toks, st, c, "condition")
                                             ELSE c),
                                     live /\ ToBoolean(c.val))
        ELSE IF tok.t = "eof" \/ IsPunct(tok, <<"}">>) THEN Throw(st, "SyntaxError")
        ELSE LET x == Expression(toks, st, live)
                 e == IF live /\ x.err = "" THEN Executed(toks, st, x, "expression")
                      ELSE x
                 nx == Peek(toks, e)
             IN  IF e.err # "" THEN e
                 ELSE IF IsPunct(nx, <<";">>) THEN Advance(e)
                 ELSE IF nx.t = "eof" \/ IsPunct(nx, <<"}">>) THEN e
                 ELSE Throw(e, "SyntaxError")

StatementList(toks, st, live) ==
    LET tok == Peek(toks, st)
    IN  IF st.err # "" \/ tok.t = "eof" \/ IsPunct(tok, <<"}">>) THEN st
        ELSE StatementList(toks, Statement(toks, st, live), live)

\* Script: a statement list up to the end of the program.
Script(toks, env, live) ==
    LET st0 == [pos |-> 1, env |-> env, err |-> "", val |-> <<>>, log |-> <<>>]
        r   == StatementList(toks, st0, live)
    IN  IF r.err = "" /\ Peek(toks, r).t # "eof" THEN Throw(r, "SyntaxError")
        ELSE r

\* vm.runInContext(code, context): the script is parsed whole, and a
\* SyntaxError is thrown before any of it runs.
runInContext(c, env) ==
    LET lexed == Lex(c)
    IN  IF ~lexed.ok THEN [err |-> "SyntaxError", env |-> env, log |-> <<>>]
        ELSE IF Script(lexed.toks, env, FALSE).err # ""
        THEN [err |-> "SyntaxError", env |-> env, log |-> <<>>]
        ELSE LET r == Script(lexed.toks, env, TRUE)
             IN  [err |-> r.err, env |-> r.env, log |-> r.log]

\* ------------------------------------------------------------- miniEjs

O == <<"o">>

\* One context kept by the module and seeded from the data of each call
NewContextReused(d) ==
    IF context = <<>> \/ O \notin DOMAIN context
    THEN [k \in DOMAIN d \cup {O} |-> IF k \in DOMAIN d THEN d[k] ELSE <<>>]
    ELSE [k \in DOMAIN context \cup DOMAIN d |->
             IF k \in DOMAIN d THEN d[k] ELSE IF k = O THEN <<>> ELSE context[k]]

\* { o: "", ...data }
NewContext(d) ==
    [k \in DOMAIN d \cup {O} |-> IF k \in DOMAIN d THEN d[k] ELSE <<>>]

Returned(value) == [ok |-> TRUE, value |-> value, error |-> ""]

Thrown(error) == [ok |-> FALSE, value |-> <<>>, error |-> error]

\* The error of the program caught and the accumulator returned as it is
OutcomeSwallowing(r) == Returned(r.env[O])

\* What miniEjs gives after vm.runInContext: the exception of the program
\* passes through it, and context.o is returned when there is none
Outcome(r) == IF r.err # "" THEN Thrown(r.err) ELSE Returned(r.env[O])

\* The body of miniEjs after compileTemplate: the program run in a new
\* context, and context.o returned
evaluate(c, d) == Outcome(runInContext(c, NewContext(d)))

\* miniEjs(str, data): what the call returns or throws
miniEjs(s, d) ==
    LET compiled == compileTemplate(s)
    IN  IF ~compiled.ok THEN Thrown(compiled.error)
        ELSE evaluate(compiled.code, d)

\* -------------------------------------------------------------- inputs

\* The strings over chars of length at most n
Strings(chars, n) == UNION {[1..k -> chars] : k \in 0..n}

LitChars == {"X", "n", SP, DQ, BS, LF, CR}

PieceChars == {"X", SP, TAB, LF, CR}

Pieces == Strings(PieceChars, MaxPiece)

SmallPieces == {<<>>, <<"X">>, <<SP, "X", SP>>}

EndPieces == {<<>>, <<"X">>}

CodeOpen == <<"<", "%">>
CodeOpenTrim == <<"<", "%", "-">>
PrintOpen == <<"<", "%", "=">>
PrintOpenTrim == <<"<", "%", "-", "=">>
Close == <<"%", ">">>
CloseTrim == <<"-", "%", ">">>

Openers == {CodeOpen, CodeOpenTrim, PrintOpen, PrintOpenTrim}
PlainOpeners == {CodeOpen, PrintOpen}
Closers == {Close, CloseTrim}

Name == <<"n", "a", "m", "e">>
Foo == <<"f", "o", "o">>
World == <<"W", "o", "r", "l", "d">>
FooValue == <<"F", "o", "o">>

IfFoo == <<"i", "f", SP, "(">> \o Foo \o <<")", SP, "{", "}">>
IfNameOpen == <<"i", "f", SP, "(">> \o Name \o <<")", SP, "{">>
BlockEnd == <<"}">>

Block(opener, value, closer) == opener \o value \o closer

NoData == <<>>
FullData == (Name :> World) @@ (Foo :> FooValue)
EmptyNameData == (Name :> <<>>) @@ (Foo :> FooValue)
FooData == (Foo :> FooValue)
AccumulatorData == (O :> <<"Z">>) @@ (Foo :> FooValue)

\* Templates without any delimiter
LiteralInputs ==
    {<<s, d>> : s \in Strings(LitChars, MaxLit), d \in {NoData, AccumulatorData}}

\* text, one block, text
OneBlockInputs ==
    {<<t[1] \o Block(op, v, cl) \o t[2], d>> :
        t \in (Pieces \X SmallPieces) \cup (SmallPieces \X Pieces),
        op \in Openers, cl \in Closers,
        v \in {Foo, IfFoo},
        d \in {FullData}}

\* text, block, text, block, text
TwoBlockInputs ==
    {<<t0 \o Block(op1, v[1], cl1) \o t1 \o Block(op2, v[2], Close) \o t2, d>> :
        t0 \in {<<"X">>}, t1 \in Pieces, t2 \in EndPieces,
        op1 \in PlainOpeners, cl1 \in Closers, op2 \in Openers,
        v \in {Foo, IfFoo} \X {Foo},
        d \in {FullData}}

\* text, block, text, block, text, block, text with plain delimiters
ThreeBlockInputs ==
    {<<t[1] \o Block(op[1], v[1], Close) \o t[2] \o Block(op[2], v[2], Close)
          \o t[3] \o Block(op[3], v[3], Close) \o t[4], d>> :
        t \in {<<"X">>} \X EndPieces \X EndPieces \X {<<"X">>},
        op \in PlainOpeners \X PlainOpeners \X PlainOpeners,
        v \in {IfNameOpen, BlockEnd, Name} \X {IfNameOpen, BlockEnd, Name}
                 \X {IfNameOpen, BlockEnd, Name},
        d \in {FullData, EmptyNameData, FooData}}

Hello == <<"H", "e", "l", "l", "o">>
Bar == <<"B", "a", "r">>
Baz == <<"B", "a", "z">>
What == <<"W", "h", "a", "t">>
Indent == <<SP, SP, SP, SP>>

\* The templates of mini-ejs.test.js, with foo for the literal true
HelloPrint == Hello \o <<",", SP>> \o Block(PrintOpen, <<SP>> \o Name \o <<SP>>, Close) \o <<"!">>
HelloIf ==
    Hello \o Block(CodeOpen, <<SP>> \o IfNameOpen \o <<SP>>, Close) \o <<",", SP>>
          \o Block(PrintOpen, Name, Close)
          \o Block(CodeOpen, <<SP, "}", SP>>, Close) \o <<"!">>
OpposedCode ==
    <<"X">> \o Block(CodeOpen, <<SP>> \o IfFoo \o <<SP>>, CloseTrim)
            \o Block(CodeOpenTrim, <<SP>> \o IfFoo \o <<SP>>, Close) \o <<"X">>
OpposedPrint ==
    Block(PrintOpen, Foo \o <<SP>>, CloseTrim) \o Block(PrintOpenTrim, Foo \o <<SP>>, Close)
NewLines ==
    <<LF>> \o Indent \o Block(CodeOpenTrim, <<SP>>, Close) \o FooValue \o <<LF>>
           \o Indent \o Block(CodeOpen, <<SP, SP>>, CloseTrim) \o <<LF, SP, SP>>
Quotes == What \o <<SP, DQ>> \o FooValue \o <<DQ, SP>> \o Bar

ScenarioInputs ==
    {<<HelloPrint, FullData>>, <<HelloIf, FullData>>, <<HelloIf, EmptyNameData>>,
     <<Block(PrintOpen, Foo, Close) \o <<SP, SP, SP>> \o Bar, FooData>>,
     <<Block(PrintOpen, Foo, CloseTrim) \o <<SP, SP, SP>> \o Bar, FooData>>,
     <<Bar \o <<SP, SP, SP>> \o Block(PrintOpen, Foo, Close), FooData>>,
     <<Bar \o <<SP, SP, SP>> \o Block(PrintOpenTrim, Foo, Close), FooData>>,
     <<Bar \o <<SP>> \o Block(PrintOpenTrim, Foo, CloseTrim) \o <<SP>> \o Baz, FooData>>,
     <<OpposedCode, FooData>>, <<OpposedPrint, FooData>>,
     <<NewLines, NoData>>, <<Quotes, NoData>>}

\* A text with whitespace at both ends and inside
Spaced == <<SP, "X", SP, "X", SP>>

\* Spaced text around and between two blocks of every delimiter pair
SpacedInputs ==
    {<<Spaced \o Block(op[1], Foo, cl[1]) \o Spaced \o Block(op[2], Foo, cl[2])
          \o Spaced, d>> :
        op \in Openers \X Openers, cl \in Closers \X Closers,
        d \in {FullData}}

\* Templates with a closer that no opener precedes
StrayCloserInputs ==
    {<<t \o cl \o rest, d>> :
        t \in EndPieces, cl \in Closers,
        rest \in {<<>>, <<SP>> \o Block(PrintOpen, Foo, Close)},
        d \in {FullData}}

\* Templates with an opener that is not closed
UnclosedInputs ==
    {<<t \o op \o Foo \o rest, d>> :
        t \in EndPieces \cup {<<"X">> \o Block(PrintOpen, Foo, Close)},
        op \in Openers,
        rest \in {<<>>, <<SP>> \o Block(PrintOpen, Foo, Close), <<"%">>, <<">">>},
        d \in {FullData}}

Inputs ==
    LiteralInputs \cup OneBlockInputs \cup TwoBlockInputs \cup ThreeBlockInputs
        \cup ScenarioInputs \cup SpacedInputs \cup StrayCloserInputs
        \cup UnclosedInputs

\* ------------------------------------------------------- specification

None == <<>>

\* The bootstrap script is not run
NoBootstrap ==
    /\ argv = None
    /\ processEnv = None
    /\ disk = None
    /\ step = None
    /\ trace = None
    /\ runs = None
    /\ failures = None
    /\ status = None

\* miniEjs is not called
NoRender ==
    /\ pc = None
    /\ str = None
    /\ data = None
    /\ tokens0 = None
    /\ tokens = None
    /\ code = None
    /\ context = None
    /\ log = None
    /\ result = None
    /\ session = None

Init ==
    /\ \E in \in Inputs :
          /\ str = in[1]
          /\ data = in[2]
          /\ session = [calls |-> <<in>>, results |-> <<>>]
    /\ NoBootstrap
    /\ pc = "call"
    /\ tokens0 = None
    /\ tokens = None
    /\ code = None
    /\ context = None
    /\ log = None
    /\ result = None

\* const code = compileTemplate(str)
CompileTemplate ==
    /\ pc = "call"
    /\ LET compiled == compileTemplate(str)
       IN  IF compiled.ok
           THEN /\ pc' = "compiled"
                /\ tokens0' = compiled.tokens0
                /\ tokens' = compiled.tokens
                /\ code' = compiled.code
                /\ result' = result
           ELSE /\ pc' = "thrown"
                /\ result' = Thrown(compiled.error)
                /\ UNCHANGED <<tokens0, tokens, code>>
    /\ UNCHANGED <<str, data, context, log, session>>
    /\ UNCHANGED bootVars

\* const context = { o: "", ...data }; vm.createContext(context);
\* vm.runInContext(code, context); return context.o
RunInContext ==
    /\ pc = "compiled"
    /\ LET r == runInContext(code, NewContext(data))
       IN  /\ context' = r.env
           /\ log' = r.log
           /\ result' = Outcome(r)
           /\ pc' = IF r.err # "" THEN "thrown" ELSE "returned"
    /\ UNCHANGED <<str, data, tokens0, tokens, code, session>>
    /\ UNCHANGED bootVars

Next == CompileTemplate \/ RunInContext

Spec == Init /\ [][Next]_vars

\* ------------------------------------------- a caller of several renders

Assigned == <<"a">>
PrintFoo == Block(PrintOpen, Foo, Close)
PrintName == Block(PrintOpen, Name, Close)
PrintAssigned == Block(PrintOpen, Assigned, Close)

\* <% name = foo %><%=name%>
AssignName == Block(CodeOpen, <<SP>> \o Name \o <<SP, "=", SP>> \o Foo \o <<SP>>, Close) \o PrintName
\* <% a = foo %><%=a%>
AssignNew == Block(CodeOpen, <<SP>> \o Assigned \o <<SP, "=", SP>> \o Foo \o <<SP>>, Close) \o PrintAssigned
\* <% foo += foo %><%=foo%>
AppendFoo == Block(CodeOpen, <<SP>> \o Foo \o <<SP, "+", "=", SP>> \o Foo \o <<SP>>, Close) \o PrintFoo

SessionInputs ==
    {<<s, d>> : s \in {AssignName, AssignNew, AppendFoo, PrintFoo, PrintName, PrintAssigned},
                d \in {FooData, FullData}}

SessionInit ==
    /\ \E n \in 1..MaxCalls : \E calls \in [1..n -> SessionInputs] :
          /\ session = [calls |-> calls, results |-> <<>>]
          /\ str = calls[1][1]
          /\ data = calls[1][2]
    /\ NoBootstrap
    /\ pc = "call"
    /\ tokens0 = None
    /\ tokens = None
    /\ code = None
    /\ context = None
    /\ log = None
    /\ result = None

\* The caller takes the result of the call and makes its next call. The
\* context object of the call that ended is no longer referenced.
NextCall ==
    /\ pc \in {"returned", "thrown"}
    /\ Len(session.results) + 1 < Len(session.calls)
    /\ session' = [session EXCEPT !.results = Append(@, result)]
    /\ str' = session.calls[Len(session.results) + 2][1]
    /\ data' = session.calls[Len(session.results) + 2][2]
    /\ pc' = "call"
    /\ tokens0' = None
    /\ tokens' = None
    /\ code' = None
    /\ log' = None
    /\ result' = None
    /\ UNCHANGED context
    /\ UNCHANGED bootVars

SessionNext == CompileTemplate \/ RunInContext \/ NextCall

SessionSpec == SessionInit /\ [][SessionNext]_vars

\* ------------------------------------------------------- bootstrap.js
\* The files of the project: package.json (None while there is none), the
\* files and directories the steps create, and the bootstrap script, the
\* templates directory and README.md that come with the template.

ProjectName == <<"m", "y", "-", "l", "i", "b">>

Usage == "usage notes"

\* The default test target of npm init
DefaultTest == "echo \"Error: no test specified\" && exit 1"

\* The .js files npm init may take for main
DefaultMains == {<<"index.js">>, <<"bootstrap.js">>}

EslintPackages ==
    {"prettier", "eslint", "eslint-config-prettier", "eslint-config-standard",
     "eslint-plugin-import", "eslint-plugin-mocha", "eslint-plugin-node",
     "eslint-plugin-promise"}

MochaPackages == {"mocha", "nyc"}

LintScript == "eslint . && prettier --check '**/*.js'"

\* The flags main looks for in process.argv
Flags == {"--touch", "--camel", "--vscode"}

\* el.charAt(0).toUpperCase() for the letters of the model
ToUpperCase(c) ==
    CASE c = "l" -> "L"
      [] c = "m" -> "M"
      [] c = "y" -> "Y"
      [] c = "i" -> "I"
      [] c = "b" -> "B"
      [] OTHER -> c

\* kebabToCamel from the character at i: the separators - and _ are dropped
\* and the character after a separator is put in upper case
RECURSIVE CamelFrom(_, _, _)
CamelFrom(name, i, first) ==
    IF i > Len(name) THEN <<>>
    ELSE IF name[i] \in {"-", "_"} THEN CamelFrom(name, i + 1, TRUE)
    ELSE <<IF first THEN ToUpperCase(name[i]) ELSE name[i]>>
            \o CamelFrom(name, i + 1, FALSE)

kebabToCamel(name) == CamelFrom(name, 1, FALSE)

\* if (VARIABLE): the variable is set and not the empty string
EnvHas(e, name) == name \in DOMAIN e /\ e[name] # ""

\* packageJsonHasDevDependency(name)
packageJsonHasDevDependency(d, name) == name \in d.pkg.devDependencies

\* package.json as npm init -y writes it
InitPackageJson(main) ==
    [name |-> ProjectName, description |-> Usage, main |-> main,
     scripts |-> ("test" :> DefaultTest), devDependencies |-> {},
     mocha |-> FALSE, nyc |-> FALSE]

\* scripts[name] = command
SetScript(scripts, name, command) ==
    [k \in DOMAIN scripts \cup {name} |-> IF k = name THEN command ELSE scripts[k]]

\* delete scripts.test
DeleteScript(scripts, name) == [k \in DOMAIN scripts \ {name} |-> scripts[k]]

\* The clean up of npmInit
CleanPackageJson(pkg) ==
    [pkg EXCEPT !.description = "", !.main = <<>>,
                !.scripts = DeleteScript(@, "test")]

\* npmInstallDev(...packages)
npmInstallDev(pkg, packages) ==
    [pkg EXCEPT !.devDependencies = @ \cup packages]

\* The order of the awaits of main, selfRemove before setupVsCode
StepAfterRemoveEarly(name, args) ==
    CASE name = "npmInit" -> "installEslintAndPrettier"
      [] name = "installEslintAndPrettier" -> "installMochaAndNyc"
      [] name = "installMochaAndNyc" -> "installUnexpected"
      [] name = "installUnexpected" -> "nvmInit"
      [] name = "nvmInit" -> "gitInit"
      [] name = "gitInit" ->
            IF "--touch" \in args THEN "touchEntryPointFiles" ELSE "selfRemove"
      [] name = "touchEntryPointFiles" -> "selfRemove"
      [] name = "selfRemove" ->
            IF "--vscode" \in args THEN "setupVsCode" ELSE "done"
      [] name = "setupVsCode" -> "done"

\* The step main awaits after the step name
StepAfter(name, args) ==
    CASE name = "npmInit" -> "installEslintAndPrettier"
      [] name = "installEslintAndPrettier" -> "installMochaAndNyc"
      [] name = "installMochaAndNyc" -> "installUnexpected"
      [] name = "installUnexpected" -> "nvmInit"
      [] name = "nvmInit" -> "gitInit"
      [] name = "gitInit" ->
            IF "--touch" \in args THEN "touchEntryPointFiles"
            ELSE IF "--vscode" \in args THEN "setupVsCode"
            ELSE "selfRemove"
      [] name = "touchEntryPointFiles" ->
            IF "--vscode" \in args THEN "setupVsCode" ELSE "selfRemove"
      [] name = "setupVsCode" -> "selfRemove"
      [] name = "selfRemove" -> "done"

Running == [error |-> "", at |-> "", exit |-> ""]

\* The awaited step resolves: main goes on, and when it was the last one the
\* promise of main resolves and the process ends with status 0.
Completes(name) ==
    /\ step' = StepAfter(name, argv)
    /\ trace' = Append(trace, name)
    /\ status' = IF step' = "done" THEN [Running EXCEPT !.exit = "0"] ELSE status
    /\ UNCHANGED <<argv, processEnv, runs, failures>>

\* The awaited step rejects: the rejection handler of main prints the error
\* and calls process.exit(1).
Rejects(name, error) ==
    /\ step' = "failed"
    /\ status' = [error |-> error, at |-> name, exit |-> "1"]
    /\ failures' = IF error = "EEXIST" THEN failures ELSE failures + 1
    /\ UNCHANGED <<argv, processEnv, runs, trace>>

\* An operation of the step fails for a reason outside the project
Breaks(name) == failures < MaxFailures /\ Rejects(name, "Error")

BootInit ==
    /\ argv \in SUBSET Flags
    /\ \E skip \in {"unset", "", "0", "1"}, nvm \in BOOLEAN :
          processEnv = [k \in (IF skip = "unset" THEN {} ELSE {"SKIPREMOVAL"})
                          \cup (IF nvm THEN {"NVM_DIR"} ELSE {}) |->
                    IF k = "SKIPREMOVAL" THEN skip ELSE "/root/.nvm"]
    /\ disk = [pkg |-> None, nvmrc |-> FALSE, git |-> FALSE,
               lib |-> FALSE, test |-> FALSE, libFile |-> None, testFile |-> None,
               vscode |-> FALSE, settings |-> FALSE, gitignore |-> 0,
               script |-> TRUE, readme |-> Usage, templates |-> TRUE]
    /\ step = "npmInit"
    /\ trace = <<>>
    /\ runs = 1
    /\ failures = 0
    /\ status = Running
    /\ NoRender

NpmInit ==
    /\ step = "npmInit"
    /\ \/ /\ disk.pkg # None
          /\ UNCHANGED disk
          /\ Completes("npmInit")
       \/ /\ UNCHANGED disk
          /\ Breaks("npmInit")
       \/ /\ disk.pkg = None
          /\ \E main \in DefaultMains :
                disk' = [disk EXCEPT !.pkg = InitPackageJson(main)]
          /\ Breaks("npmInit")
       \/ /\ disk.pkg = None
          /\ \E main \in DefaultMains :
                disk' = [disk EXCEPT !.pkg = CleanPackageJson(InitPackageJson(main))]
          /\ Completes("npmInit")
    /\ UNCHANGED engineVars

InstallEslintAndPrettier ==
    /\ step = "installEslintAndPrettier"
    /\ \/ /\ packageJsonHasDevDependency(disk, "eslint")
          /\ UNCHANGED disk
          /\ Completes("installEslintAndPrettier")
       \/ /\ UNCHANGED disk
          /\ Breaks("installEslintAndPrettier")
       \/ /\ ~packageJsonHasDevDependency(disk, "eslint")
          /\ disk' = [disk EXCEPT !.pkg = npmInstallDev(@, EslintPackages)]
          /\ Breaks("installEslintAndPrettier")
       \/ /\ ~packageJsonHasDevDependency(disk, "eslint")
          /\ disk' = [disk EXCEPT !.pkg =
                [npmInstallDev(@, EslintPackages) EXCEPT
                    !.scripts = SetScript(@, "lint", LintScript)]]
          /\ Completes("installEslintAndPrettier")
    /\ UNCHANGED engineVars

InstallMochaAndNyc ==
    /\ step = "installMochaAndNyc"
    /\ \/ /\ packageJsonHasDevDependency(disk, "mocha")
          /\ UNCHANGED disk
          /\ Completes("installMochaAndNyc")
       \/ /\ UNCHANGED disk
          /\ Breaks("installMochaAndNyc")
       \/ /\ ~packageJsonHasDevDependency(disk, "mocha")
          /\ disk' = [disk EXCEPT !.pkg = npmInstallDev(@, MochaPackages)]
          /\ Breaks("installMochaAndNyc")
       \/ /\ ~packageJsonHasDevDependency(disk, "mocha")
          /\ disk' = [disk EXCEPT !.pkg =
                [npmInstallDev(@, MochaPackages) EXCEPT
                    !.scripts = SetScript(SetScript(@, "test", "mocha"),
                                          "coverage", "nyc mocha"),
                    !.mocha = TRUE, !.nyc = TRUE]]
          /\ Completes("installMochaAndNyc")
    /\ UNCHANGED engineVars

InstallUnexpected ==
    /\ step = "installUnexpected"
    /\ \/ /\ packageJsonHasDevDependency(disk, "unexpected")
          /\ UNCHANGED disk
          /\ Completes("installUnexpected")
       \/ /\ UNCHANGED disk
          /\ Breaks("installUnexpected")
       \/ /\ ~packageJsonHasDevDependency(disk, "unexpected")
          /\ disk' = [disk EXCEPT !.pkg = npmInstallDev(@, {"unexpected"})]
          /\ Completes("installUnexpected")
    /\ UNCHANGED engineVars

NvmInit ==
    /\ step = "nvmInit"
    /\ \/ /\ disk.nvmrc \/ ~EnvHas(processEnv, "NVM_DIR")
          /\ UNCHANGED disk
          /\ Completes("nvmInit")
       \/ /\ UNCHANGED disk
          /\ Breaks("nvmInit")
       \/ /\ ~disk.nvmrc /\ EnvHas(processEnv, "NVM_DIR")
          /\ disk' = [disk EXCEPT !.nvmrc = TRUE]
          /\ Completes("nvmInit")
    /\ UNCHANGED engineVars

GitInit ==
    /\ step = "gitInit"
    /\ \/ /\ disk.git
          /\ UNCHANGED disk
          /\ Completes("gitInit")
       \/ /\ UNCHANGED disk
          /\ Breaks("gitInit")
       \/ /\ ~disk.git
          /\ disk' = [disk EXCEPT !.git = TRUE]
          /\ Completes("gitInit")
    /\ UNCHANGED engineVars

\* The name of the entry point files
FileName(d, args) ==
    IF "--camel" \in args THEN kebabToCamel(d.pkg.name) ELSE d.pkg.name

\* The files after the first k of the five writes of touchEntryPointFiles:
\* mkdirSync(lib), mkdirSync(test), the file of lib, the file of test, and
\* package.json with its main
TouchDone(d, k, fileName) ==
    [d EXCEPT !.lib = IF k >= 1 THEN TRUE ELSE @,
              !.test = IF k >= 2 THEN TRUE ELSE @,
              !.libFile = IF k >= 3 THEN fileName ELSE @,
              !.testFile = IF k >= 4 THEN fileName ELSE @,
              !.pkg = IF k >= 5
                      THEN [@ EXCEPT !.main = <<"lib/">> \o fileName \o <<".js">>]
                      ELSE @]

TouchEntryPointFiles ==
    /\ step = "touchEntryPointFiles"
    /\ \/ /\ disk.lib \/ disk.test
          /\ disk' = IF disk.lib THEN disk
                     ELSE TouchDone(disk, 1, FileName(disk, argv))
          /\ Rejects("touchEntryPointFiles", "EEXIST")
       \/ /\ \E k \in 0..4 :
                /\ k >= 1 => ~disk.lib
                /\ k >= 2 => ~disk.test
                /\ disk' = TouchDone(disk, k, FileName(disk, argv))
          /\ Breaks("touchEntryPointFiles")
       \/ /\ ~disk.lib /\ ~disk.test
          /\ disk' = TouchDone(disk, 5, FileName(disk, argv))
          /\ Completes("touchEntryPointFiles")
    /\ UNCHANGED engineVars

\* The files after the first k of the three writes of setupVsCode:
\* mkdirSync(.vscode), settings.json, and the lines appended to .gitignore
VsCodeDone(d, k) ==
    [d EXCEPT !.vscode = IF k >= 1 THEN TRUE ELSE @,
              !.settings = IF k >= 2 THEN TRUE ELSE @,
              !.gitignore = IF k >= 3 THEN @ + 1 ELSE @]

SetupVsCode ==
    /\ step = "setupVsCode"
    /\ \/ /\ disk.vscode
          /\ UNCHANGED disk
          /\ Rejects("setupVsCode", "EEXIST")
       \/ /\ \E k \in 0..2 :
                /\ k >= 1 => ~disk.vscode
                /\ disk' = VsCodeDone(disk, k)
          /\ Breaks("setupVsCode")
       \/ /\ ~disk.vscode
          /\ disk' = VsCodeDone(disk, 3)
          /\ Completes("setupVsCode")
    /\ UNCHANGED engineVars

\* The removal skipped only for SKIPREMOVAL=1
SkipsRemovalWhenOne(e) == "SKIPREMOVAL" \in DOMAIN e /\ e["SKIPREMOVAL"] = "1"

\* if (SKIPREMOVAL)
SkipsRemoval(e) == EnvHas(e, "SKIPREMOVAL")

SelfRemove ==
    /\ step = "selfRemove"
    /\ \/ /\ SkipsRemoval(processEnv)
          /\ UNCHANGED disk
          /\ Completes("selfRemove")
       \/ /\ ~SkipsRemoval(processEnv)
          /\ UNCHANGED disk
          /\ Breaks("selfRemove")
       \/ /\ ~SkipsRemoval(processEnv)
          /\ disk' = [disk EXCEPT !.script = FALSE]
          /\ Breaks("selfRemove")
       \/ /\ ~SkipsRemoval(processEnv)
          /\ disk' = [disk EXCEPT !.script = FALSE, !.readme = ""]
          /\ Completes("selfRemove")
    /\ UNCHANGED engineVars

\* An error happened. Try running the script again.
Rerun ==
    /\ step = "failed"
    /\ disk.script
    /\ runs < MaxRuns
    /\ step' = "npmInit"
    /\ trace' = <<>>
    /\ runs' = runs + 1
    /\ status' = Running
    /\ UNCHANGED <<argv, processEnv, disk, failures>>
    /\ UNCHANGED engineVars

BootNext ==
    \/ NpmInit
    \/ InstallEslintAndPrettier
    \/ InstallMochaAndNyc
    \/ InstallUnexpected
    \/ NvmInit
    \/ GitInit
    \/ TouchEntryPointFiles
    \/ SetupVsCode
    \/ SelfRemove
    \/ Rerun

BootSpec == BootInit /\ [][BootNext]_vars

\* ------------------------------------------------- reference notions
\* What the claims speak of, defined without the operators of the engine.

Whitespace == {SP, TAB, LF, CR}

Finished == pc \in {"returned", "thrown"}

Compiled == pc \in {"compiled", "returned"} \/ (pc = "thrown" /\ tokens # None)

\* The length of the whitespace run a string starts with / ends with
LeadingRun(s) ==
    CHOOSE k \in 0..Len(s) :
        /\ \A j \in 1..k : s[j] \in Whitespace
        /\ k < Len(s) => s[k + 1] \notin Whitespace

TrailingRun(s) ==
    CHOOSE k \in 0..Len(s) :
        /\ \A j \in (Len(s) - k + 1)..Len(s) : s[j] \in Whitespace
        /\ k < Len(s) => s[Len(s) - k] \notin Whitespace

WithoutLeadingRun(s) == SubSeq(s, LeadingRun(s) + 1, Len(s))

WithoutTrailingRun(s) == SubSeq(s, 1, Len(s) - TrailingRun(s))

IsBlock(tok) == tok.type \in {"print", "code"}

\* What miniEjs gives for a template that tokenizes to toks
RenderOf(toks, d) == evaluate(compileTokens(toks).code, d)

\* The identifier a print expression consists of
IdentifierOf(value) == WithoutTrailingRun(WithoutLeadingRun(value))

\* ------------------------------------------------------------------ C1
\* What each token of a Text/Print template adds to the output.
Contribution(tok) ==
    IF tok.type = "text" THEN tok.value ELSE data[IdentifierOf(tok.value)]

OnlyTextAndPrint ==
    /\ Compiled
    /\ \A i \in 1..Len(tokens) :
          \/ tokens[i].type = "text"
          \/ /\ tokens[i].type = "print"
             /\ IdentifierOf(tokens[i].value) \in DOMAIN data

\* C1: for a template of Text and Print tokens only, miniEjs returns the
\* concatenation, in template order, of the text pieces (after the trim
\* adjustments) and of the values of the print expressions in the data.
C1_RenderIsConcatenation ==
    (Finished /\ OnlyTextAndPrint /\ O \notin DOMAIN data) =>
        result = Returned(Concat([i \in 1..Len(tokens) |-> Contribution(tokens[i])]))

\* ------------------------------------------------------------------ C2
\* C2: a Code block appends nothing, whatever its statement evaluates to:
\* every statement or condition that ran in the segment of a Code token left
\* the accumulator as it was, so only Text and Print tokens add characters.
C2_CodeAppendsNothing ==
    pc = "returned" =>
        \A k \in 1..Len(log) :
            /\ tokens[log[k].seg].type = "code" => log[k].after = log[k].before
            /\ log[k].after # log[k].before =>
                  tokens[log[k].seg].type \in {"text", "print"}

\* A Code block whose statement has a non-empty value has run.
C2_Witness ==
    /\ pc = "returned"
    /\ \E k \in 1..Len(log) :
          /\ tokens[log[k].seg].type = "code"
          /\ log[k].kind = "expression"
          /\ log[k].value # <<>>

\* ------------------------------------------------------------------ C3
IfOpenOf(c) == <<"i", "f", SP, "(">> \o c \o <<")", SP, "{">>

IsIfOpen(tok) ==
    tok.type = "code" /\ \E c \in {Name, Foo} : IdentifierOf(tok.value) = IfOpenOf(c)

IsIfClose(tok) == tok.type = "code" /\ IdentifierOf(tok.value) = <<"}">>

ConditionOf(tok) == CHOOSE c \in {Name, Foo} : IdentifierOf(tok.value) = IfOpenOf(c)

Count(toks, from, to, P(_)) == Cardinality({m \in from..to : P(toks[m])})

\* The if blocks that are open at token i
Enclosing(toks, i) ==
    {j \in 1..(i - 1) :
        /\ IsIfOpen(toks[j])
        /\ \A m \in (j + 1)..(i - 1) :
              Count(toks, j + 1, m, IsIfClose) <= Count(toks, j + 1, m, IsIfOpen)}

Truthy(c) == c \in DOMAIN data /\ data[c] # <<>>

Contributes(i) == \E k \in 1..Len(log) : log[k].seg = i /\ log[k].kind = "expression"

\* C3: a Text or Print token contributes to the output exactly when the
\* condition of every if block it lies in is truthy in the data (always,
\* when it lies in none), and it contributes once; the spec's example
\* renders Hello, World! for name = World and Hello! for the empty name.
C3_IfGuardsItsBlock ==
    pc = "returned" =>
        /\ \A i \in 1..Len(tokens) :
              tokens[i].type \in {"text", "print"} =>
                 /\ Contributes(i) <=>
                       \A j \in Enclosing(tokens, i) : Truthy(ConditionOf(tokens[j]))
                 /\ Cardinality({k \in 1..Len(log) : log[k].seg = i}) <= 1
        /\ str = HelloIf =>
              result.value = IF data[Name] # <<>>
                             THEN Hello \o <<",", SP>> \o World \o <<"!">>
                             ELSE Hello \o <<"!">>

\* A Text token inside an if block whose condition is falsy was skipped, and
\* one after the block was emitted.
C3_Witness ==
    /\ pc = "returned"
    /\ \E i \in 1..Len(tokens), j \in 1..Len(tokens) :
          /\ tokens[i].type = "text" /\ tokens[j].type = "text"
          /\ Enclosing(tokens, i) # {} /\ ~Contributes(i)
          /\ j > i /\ Enclosing(tokens, j) = {} /\ Contributes(j)

\* ------------------------------------------------------------------ C4
NoDelimiter(s) ==
    \A i \in 1..Len(s) :
        /\ ~StartsWithAt(s, i, CodeOpen)
        /\ ~StartsWithAt(s, i, Close)

\* C4: rendering a template without delimiters returns the template text,
\* character for character.
C4_LiteralRoundTrip ==
    (Finished /\ NoDelimiter(str)) => result = Returned(str)

\* ------------------------------------------------------------------ C5
\* The program segment of a Text token is o += followed by one string literal.
IsOneLiteral(segment) ==
    LET lexed == Lex(segment)
    IN  /\ lexed.ok
        /\ Len(lexed.toks) = 3
        /\ lexed.toks[1] = [t |-> "id", v |-> O]
        /\ lexed.toks[2] = [t |-> "p", v |-> <<"+", "=">>]
        /\ lexed.toks[3].t = "str"

\* C5: for every Text token the assembled operation is one well-formed
\* string literal that the text cannot terminate early.
C5_LiteralIsWellFormed ==
    Compiled =>
        \A i \in 1..Len(tokens) :
            tokens[i].type = "text" => IsOneLiteral(EvalSegment(tokens[i]))

\* ------------------------------------------------------------ trimming
TrimsAfter(toks, i) == i >= 1 /\ i <= Len(toks) /\ IsBlock(toks[i]) /\ toks[i].trim.forward

TrimsBefore(toks, i) == i >= 1 /\ i <= Len(toks) /\ IsBlock(toks[i]) /\ toks[i].trim.backwards

AllWhitespace(s) == \A j \in 1..Len(s) : s[j] \in Whitespace

\* The text piece at i with the whitespace that the delimiters next to it
\* name taken off.
ExpectedText(toks, i) ==
    LET lead == IF TrimsAfter(toks, i - 1) THEN WithoutLeadingRun(toks[i].value)
                ELSE toks[i].value
    IN  IF TrimsBefore(toks, i + 1) THEN WithoutTrailingRun(lead) ELSE lead

\* The tokens of the same template with trim delimiters replaced by plain
\* ones and the whitespace they name deleted from the text: after selects
\* the closers, before the openers that are written out.
WrittenOut(toks, after, before) ==
    [i \in 1..Len(toks) |->
        IF IsBlock(toks[i])
        THEN [toks[i] EXCEPT
                !.trim = [forward |-> IF after THEN FALSE ELSE @.forward,
                          backwards |-> IF before THEN FALSE ELSE @.backwards]]
        ELSE LET lead == IF after /\ TrimsAfter(toks, i - 1)
                         THEN WithoutLeadingRun(toks[i].value) ELSE toks[i].value
             IN  [toks[i] EXCEPT
                    !.value = IF before /\ TrimsBefore(toks, i + 1)
                              THEN WithoutTrailingRun(lead) ELSE lead]]

FollowsBlock(i) == i > 1 /\ tokens0[i].type = "text" /\ IsBlock(tokens0[i - 1])

PrecedesBlock(i) ==
    i < Len(tokens0) /\ tokens0[i].type = "text" /\ IsBlock(tokens0[i + 1])

\* ------------------------------------------------------------------ C6
\* C6 as stated: after a block closed with -%> the text piece is emitted
\* without its leading whitespace run, and after a block closed with %> it is
\* emitted with its leading whitespace run intact.
C6_AsStated ==
    Compiled =>
        \A i \in 1..Len(tokens0) : FollowsBlock(i) =>
            LET orig == tokens0[i].value
                n    == LeadingRun(orig)
            IN  IF TrimsAfter(tokens0, i - 1)
                THEN LeadingRun(tokens[i].value) = 0
                ELSE /\ Len(tokens[i].value) >= n
                     /\ SubSeq(tokens[i].value, 1, n) = SubSeq(orig, 1, n)

\* C6, amended: after a block closed with -%> the text piece is emitted
\* without its leading whitespace run, and the render gives what the tokens
\* give with that whitespace deleted and the flag clear; after a block closed
\* with %> the piece is emitted with its leading whitespace intact, unless it
\* lies before a left-trim opener, which still strips its trailing whitespace
\* (the whole piece when it is only whitespace).
C6_TrimAfter ==
    /\ Compiled =>
          \A i \in 1..Len(tokens0) : FollowsBlock(i) =>
              LET orig == tokens0[i].value
                  kept == IF TrimsAfter(tokens0, i - 1) THEN WithoutLeadingRun(orig)
                          ELSE orig
              IN  tokens[i].value =
                     IF TrimsBefore(tokens0, i + 1) THEN WithoutTrailingRun(kept)
                     ELSE kept
    /\ (Finished /\ Compiled) =>
          result = RenderOf(WrittenOut(tokens0, TRUE, FALSE), data)

\* A block closed with -%> before text that starts with whitespace has
\* rendered, and the closer changed the output.
C6_Witness ==
    /\ pc = "returned"
    /\ \E i \in 1..Len(tokens0) :
          /\ FollowsBlock(i) /\ TrimsAfter(tokens0, i - 1)
          /\ LeadingRun(tokens0[i].value) > 0
          /\ ~AllWhitespace(tokens0[i].value)
          /\ result # RenderOf([tokens0 EXCEPT ![i - 1].trim.forward = FALSE], data)

\* ------------------------------------------------------------------ C7
\* C7 as stated: before a block opened with a left-trim opener the text
\* piece is emitted without its trailing whitespace run, and before a block
\* opened with a plain opener it is emitted with that run intact.
C7_AsStated ==
    Compiled =>
        \A i \in 1..Len(tokens0) : PrecedesBlock(i) =>
            LET orig == tokens0[i].value
                n    == TrailingRun(orig)
                val  == tokens[i].value
            IN  IF TrimsBefore(tokens0, i + 1)
                THEN TrailingRun(val) = 0
                ELSE /\ Len(val) >= n
                     /\ SubSeq(val, Len(val) - n + 1, Len(val))
                           = SubSeq(orig, Len(orig) - n + 1, Len(orig))

\* C7, amended: before a block opened with <%- or <%-= the text piece is
\* emitted without its trailing whitespace run, and the render gives what the
\* tokens give with that whitespace deleted and the flag clear; before a
\* block opened with <% or <%= the piece is emitted with its trailing
\* whitespace intact, unless it lies after a block closed with -%>, which
\* still strips its leading whitespace (the whole piece when it is only
\* whitespace).
C7_TrimBefore ==
    /\ Compiled =>
          \A i \in 1..Len(tokens0) : PrecedesBlock(i) =>
              LET orig == tokens0[i].value
                  kept == IF TrimsBefore(tokens0, i + 1) THEN WithoutTrailingRun(orig)
                          ELSE orig
              IN  tokens[i].value =
                     IF TrimsAfter(tokens0, i - 1) THEN WithoutLeadingRun(kept)
                     ELSE kept
    /\ (Finished /\ Compiled) =>
          result = RenderOf(WrittenOut(tokens0, FALSE, TRUE), data)

\* A block opened with a left-trim opener after text that ends with
\* whitespace has rendered, and the whitespace changed the output.
C7_Witness ==
    /\ pc = "returned"
    /\ \E i \in 1..Len(tokens0) :
          /\ PrecedesBlock(i) /\ TrimsBefore(tokens0, i + 1)
          /\ TrailingRun(tokens0[i].value) > 0
          /\ ~AllWhitespace(tokens0[i].value)
          /\ result # RenderOf([tokens0 EXCEPT ![i + 1].trim.backwards = FALSE], data)

\* ------------------------------------------------------------------ C8
\* C8: the two trim flags of a block are independent: each of the four
\* opener/closer combinations strips the trailing whitespace of the text
\* before the block exactly when the opener is a left-trim opener and the
\* leading whitespace of the text after it exactly when the closer is -%>,
\* and nothing else; the render gives what the tokens give with that
\* whitespace deleted and both flags clear.
C8_TrimFlagsIndependent ==
    /\ Compiled =>
          \A i \in 1..Len(tokens0) : IsBlock(tokens0[i]) =>
              /\ tokens[i] = tokens0[i]
              /\ (i > 1 /\ tokens0[i - 1].type = "text") =>
                    tokens[i - 1].value = ExpectedText(tokens0, i - 1)
              /\ (i < Len(tokens0) /\ tokens0[i + 1].type = "text") =>
                    tokens[i + 1].value = ExpectedText(tokens0, i + 1)
    /\ (Finished /\ Compiled) =>
          result = RenderOf(WrittenOut(tokens0, TRUE, TRUE), data)

\* A block with both trim delimiters has rendered, after a text with
\* whitespace on both sides and before a text that starts with whitespace:
\* the sides facing the block are stripped and the far side is not.
C8_Witness ==
    /\ pc = "returned"
    /\ Len(tokens0) = 3
    /\ TrimsAfter(tokens0, 2) /\ TrimsBefore(tokens0, 2)
    /\ LeadingRun(tokens0[1].value) > 0
    /\ TrailingRun(tokens0[1].value) > 0
    /\ LeadingRun(tokens0[3].value) > 0
    /\ ~AllWhitespace(tokens0[1].value) /\ ~AllWhitespace(tokens0[3].value)
    /\ LeadingRun(tokens[1].value) > 0
    /\ TrailingRun(tokens[1].value) = 0
    /\ LeadingRun(tokens[3].value) = 0

\* ------------------------------------------------------------------ C9
RemoveAt(s, i) == SubSeq(s, 1, i - 1) \o SubSeq(s, i + 1, Len(s))

StartsWithLeftTrim == StartsWithAt(str, 1, CodeOpenTrim)

EndsWithRightTrim ==
    /\ Len(str) >= 3
    /\ StartsWithAt(str, Len(str) - 2, CloseTrim)
    /\ Compiled
    /\ Len(tokens0) >= 2
    /\ IsBlock(tokens0[Len(tokens0) - 1])

\* C9: a left-trim block at the very start of the template and a block
\* closed with -%> at its very end give what the same template gives with the
\* plain delimiter: the same output, and an error only when the plain
\* template raises it.
C9_TrimAtEdgeIsNoOp ==
    Finished =>
        /\ StartsWithLeftTrim => result = miniEjs(RemoveAt(str, 3), data)
        /\ EndsWithRightTrim => result = miniEjs(RemoveAt(str, Len(str) - 2), data)

\* A template that starts with a left-trim block and one that ends with
\* -%> have rendered.
C9_Witness ==
    /\ pc = "returned"
    /\ StartsWithLeftTrim
    /\ EndsWithRightTrim

\* ----------------------------------------------------------------- C10
Sandwiched(i) ==
    /\ tokens0[i].type = "text"
    /\ TrimsAfter(tokens0, i - 1)
    /\ TrimsBefore(tokens0, i + 1)

\* C10: a text piece between a block closed with -%> and a block opened
\* with a left-trim opener loses its leading and its trailing whitespace run
\* and keeps its core; an empty or all-whitespace piece is emitted as the
\* empty string, and the render gives what the tokens give with that
\* whitespace deleted (X<% if (foo) {} -%><%- if (foo) {} %>X gives XX).
C10_OpposedTrims ==
    /\ Compiled =>
          \A i \in 1..Len(tokens0) : Sandwiched(i) =>
              LET orig == tokens0[i].value
              IN  /\ AllWhitespace(orig) =>
                        /\ tokens[i].value = <<>>
                        /\ EvalSegment(tokens[i]) = AppendPrefix \o <<DQ, DQ>>
                  /\ ~AllWhitespace(orig) =>
                        tokens[i].value =
                           SubSeq(orig, LeadingRun(orig) + 1, Len(orig) - TrailingRun(orig))
    /\ (Finished /\ Compiled) =>
          result = RenderOf(WrittenOut(tokens0, TRUE, TRUE), data)
    /\ (Finished /\ str = OpposedCode) => result = Returned(<<"X", "X">>)

\* Both strips have removed whitespace from one piece that has a core.
C10_Witness ==
    /\ pc = "returned"
    /\ \E i \in 1..Len(tokens0) :
          /\ Sandwiched(i)
          /\ ~AllWhitespace(tokens0[i].value)
          /\ LeadingRun(tokens0[i].value) + TrailingRun(tokens0[i].value) > 0

\* ----------------------------------------------------------------- C11
\* The part of a text piece between its leading and its trailing whitespace
\* run, interior whitespace included
Core(s) == SubSeq(s, LeadingRun(s) + 1, Len(s) - TrailingRun(s))

RECURSIVE ScanUnclosed(_, _, _)
ScanUnclosed(s, i, inBlock) ==
    IF i > Len(s) THEN inBlock
    ELSE IF StartsWithAt(s, i, CodeOpen)
    THEN inBlock \/ ScanUnclosed(s, i + 2, TRUE)
    ELSE IF StartsWithAt(s, i, Close) THEN ScanUnclosed(s, i + 2, FALSE)
    ELSE ScanUnclosed(s, i + 1, inBlock)

HasUnclosedOpener(s) == ScanUnclosed(s, 1, FALSE)

\* C12: when some opener of the template is not closed before the end of
\* the template or before the next opener, miniEjs throws the error of the
\* tokenizer and returns no output, and no token was compiled and no
\* expression of the template evaluated.
C12_UnclosedRaises ==
    HasUnclosedOpener(str) =>
        /\ pc \in {"call", "thrown"}
        /\ tokens0 = None /\ tokens = None /\ code = None
        /\ context = None /\ log = None
        /\ pc = "thrown" => result = Thrown(UnclosedError)

\* A template with text and a well-formed print block before an unclosed
\* opener, and one with a block nested in a block, have thrown.
C12_Witness ==
    /\ pc = "thrown"
    /\ HasUnclosedOpener(str)
    /\ \/ StartsWithAt(str, 1, <<"X">> \o Block(PrintOpen, Foo, Close))
       \/ \E i \in 1..Len(str) :
             /\ StartsWithAt(str, i, <<SP>> \o Block(PrintOpen, Foo, Close))
             /\ i + 8 = Len(str)

\* ----------------------------------------------------------------- C13
ParseError == "Error: Parse error: Unclosed expression, missing closing delimiter"

\* C13: the error raised for an opener that is not closed carries the message
\* Parse error: Unclosed expression, missing closing delimiter, for code
\* openers and print openers alike.
C13_ParseErrorMessage ==
    (pc = "thrown" /\ HasUnclosedOpener(str)) => result.error = ParseError

\* ----------------------------------------------------------------- C15
IsIdentifier(v) ==
    /\ v # <<>>
    /\ \A k \in 1..Len(v) : v[k] \in Letters
    /\ v # <<"i", "f">>

\* Every block of the template is one identifier and no text holds a
\* character that the assembly of the literal mishandles.
Straight ==
    /\ Compiled
    /\ \A i \in 1..Len(tokens) :
          IF IsBlock(tokens[i]) THEN IsIdentifier(IdentifierOf(tokens[i].value))
          ELSE \A k \in 1..Len(tokens[i].value) : tokens[i].value[k] \notin {BS, CR}

\* The blocks whose identifier the data does not bind
Unbound == {i \in 1..Len(tokens) :
               IsBlock(tokens[i]) /\ IdentifierOf(tokens[i].value) \notin DOMAIN data}

\* What a token adds to the accumulator when it runs
Added(tok) ==
    IF tok.type = "text" THEN tok.value
    ELSE IF tok.type = "print" THEN data[IdentifierOf(tok.value)]
    ELSE <<>>

\* C15: a failure raised while a Print or Code token is evaluated reaches
\* the caller: when the first block that names an unbound identifier is
\* reached, miniEjs throws the ReferenceError and returns nothing, although
\* the accumulator holds what the tokens before it appended; and whenever the
\* program fails, miniEjs throws the error of the program with no value.
C15_EvaluationErrorPropagates ==
    /\ (Finished /\ Straight /\ O \notin DOMAIN data /\ Unbound # {}) =>
          LET b == CHOOSE i \in Unbound : \A j \in Unbound : i <= j
          IN  /\ result = Thrown("ReferenceError")
              /\ context[O] = Concat([i \in 1..(b - 1) |-> Added(tokens[i])])
    /\ (Finished /\ Compiled) =>
          /\ result.ok <=> pc = "returned"
          /\ ~result.ok =>
                /\ result.value = <<>>
                /\ result.error \in {"SyntaxError", "ReferenceError"}
                /\ result.error = runInContext(code, NewContext(data)).err

\* A Print of an unbound name has failed after text was appended to the
\* accumulator.
C15_Witness ==
    /\ pc = "thrown"
    /\ Straight
    /\ \E i \in Unbound : tokens[i].type = "print"
    /\ context[O] # <<>>
    /\ result.value = <<>>

\* ----------------------------------------------------------------- C20
OpenerOf(tok) ==
    IF tok.type = "code"
    THEN (IF tok.trim.backwards THEN CodeOpenTrim ELSE CodeOpen)
    ELSE (IF tok.trim.backwards THEN PrintOpenTrim ELSE PrintOpen)

CloserOf(tok) == IF tok.trim.forward THEN CloseTrim ELSE Close

Written(tok) ==
    IF tok.type = "text" THEN tok.value
    ELSE OpenerOf(tok) \o tok.value \o CloserOf(tok)

\* C20: the tokens of a template that tokenizes without error, written in
\* order, a Text token as its value and a block as its opener, its value and
\* its closer, give the template text back.
C20_LosslessPartition ==
    (pc # "call" /\ tokens0 # None) =>
        Concat([i \in 1..Len(tokens0) |-> Written(tokens0[i])]) = str

\* A template with a left-trim code block and a print block closed with
\* -%> was tokenized.
C20_Witness ==
    /\ pc = "compiled"
    /\ \E i \in 1..Len(tokens0) :
          /\ tokens0[i].type = "code"
          /\ tokens0[i].trim.backwards /\ ~tokens0[i].trim.forward
    /\ \E i \in 1..Len(tokens0) :
          /\ tokens0[i].type = "print"
          /\ ~tokens0[i].trim.backwards /\ tokens0[i].trim.forward

\* ----------------------------------------------------------------- C14
\* The results of the calls of the caller that have ended, in order
Results == session.results \o (IF Finished THEN <<result>> ELSE <<>>)

\* What a template of one print block gives for the data alone
PrintAlone(name, d) ==
    IF name \in DOMAIN d THEN Returned(d[name]) ELSE Thrown("ReferenceError")

\* C14: no state bleeds between the calls of a caller. Two calls with the
\* same template and the same data give the same result wherever they stand
\* in the sequence; a template of one print block gives the value the data of
\* its own call binds, or a ReferenceError when it binds none, whatever the
\* code blocks of the earlier calls assigned; and the data mapping of the
\* caller is what the caller passed, during and after each call.
C14_NoStateBleed ==
    /\ \A a \in 1..Len(Results), b \in 1..Len(Results) :
          session.calls[a] = session.calls[b] => Results[a] = Results[b]
    /\ \A a \in 1..Len(Results) :
          LET s == session.calls[a][1]
              d == session.calls[a][2]
          IN  /\ s = PrintFoo => Results[a] = PrintAlone(Foo, d)
              /\ s = PrintName => Results[a] = PrintAlone(Name, d)
              /\ s = PrintAssigned => Results[a] = PrintAlone(Assigned, d)
              /\ s = AppendFoo => Results[a] = Returned(d[Foo] \o d[Foo])
    /\ data = session.calls[Len(session.results) + 1][2]

\* After a call whose code block assigned a name the data does not bind and
\* changed the binding of a key of the data, a later call that prints that
\* name has ended.
C14_Witness ==
    /\ Len(Results) = 2
    /\ session.calls[1][1] \in {AssignName, AssignNew}
    /\ session.calls[1][2] = FooData
    /\ Results[1] = Returned(FooValue)
    /\ session.calls[2][1] \in {PrintName, PrintAssigned}
    /\ session.calls[2][2] = FooData
    /\ context # None /\ context[O] = <<>>

\* ----------------------------------------------------------------- C16
\* C16: a run of the bootstrap script that follows a failed run is never
\* stopped by a file or directory the failed run left behind.
C16_RerunNotBlocked ==
    (runs > 1 /\ step = "failed") => status.error # "EEXIST"

\* ----------------------------------------------------------------- C17
\* The project an uninterrupted run with the flags args and the environment
\* e produces
ExpectedPackageJson(args) ==
    [name |-> ProjectName,
     description |-> "",
     main |-> IF "--touch" \in args
              THEN <<"lib/">>
                      \o (IF "--camel" \in args THEN <<"m", "y", "L", "i", "b">>
                          ELSE ProjectName)
                      \o <<".js">>
              ELSE <<>>,
     scripts |-> ("lint" :> LintScript) @@ ("test" :> "mocha")
                    @@ ("coverage" :> "nyc mocha"),
     devDependencies |-> EslintPackages \cup MochaPackages \cup {"unexpected"},
     mocha |-> TRUE, nyc |-> TRUE]

\* C17: when a run of the bootstrap script ends in success, whatever runs
\* failed before it, package.json, .nvmrc, .git and the generated files are
\* those of one uninterrupted run with the same flags.
C17_ResumeGivesSameResult ==
    step = "done" =>
        /\ disk.pkg = ExpectedPackageJson(argv)
        /\ disk.nvmrc = ("NVM_DIR" \in DOMAIN processEnv)
        /\ disk.git
        /\ disk.lib = ("--touch" \in argv) /\ disk.test = ("--touch" \in argv)
        /\ disk.vscode = ("--vscode" \in argv)
        /\ disk.settings = ("--vscode" \in argv)
        /\ disk.gitignore = IF "--vscode" \in argv THEN 1 ELSE 0

\* ----------------------------------------------------------------- C18
\* The steps main awaits before selfRemove, in order
Preceding(args) ==
    <<"npmInit", "installEslintAndPrettier", "installMochaAndNyc",
      "installUnexpected", "nvmInit", "gitInit">>
        \o (IF "--touch" \in args THEN <<"touchEntryPointFiles">> ELSE <<>>)
        \o (IF "--vscode" \in args THEN <<"setupVsCode">> ELSE <<>>)

\* selfRemove is awaited, or was in this run
Invoked == step \in {"selfRemove", "done"} \/ status.at = "selfRemove"

\* C18: selfRemove is invoked only when every step before it has completed
\* in this run, in the order of main; when a step before it fails, it is not
\* invoked, the script, the templates directory and README.md are as they
\* were and the process exits with status 1; and the script and README.md
\* are never changed but by a selfRemove so invoked.
C18_RemovesItselfOnlyUponSuccess ==
    /\ Invoked =>
          /\ Len(trace) >= Len(Preceding(argv))
          /\ SubSeq(trace, 1, Len(Preceding(argv))) = Preceding(argv)
    /\ (step = "failed" /\ status.at # "selfRemove") =>
          /\ \A k \in 1..Len(trace) : trace[k] # "selfRemove"
          /\ disk.script /\ disk.templates /\ disk.readme = Usage
          /\ status.exit = "1"
    /\ (~disk.script \/ ~disk.templates \/ disk.readme # Usage) => Invoked

\* A run has failed and left the script in place, and the run after it has
\* completed and removed the script.
C18_Witness ==
    /\ step = "done"
    /\ runs = 2
    /\ ~disk.script
    /\ disk.readme = ""
    /\ status.exit = "0"

\* ----------------------------------------------------------------- C19
SkipRemovalSet ==
    "SKIPREMOVAL" \in DOMAIN processEnv /\ processEnv["SKIPREMOVAL"] # ""

\* C19: when SKIPREMOVAL is set to a non-empty value, the script, the
\* templates directory and the contents of README.md are never changed,
\* selfRemove does not fail, and the run that reaches it ends with status 0.
C19_SkipRemovalKeepsFiles ==
    SkipRemovalSet =>
        /\ disk.script /\ disk.templates /\ disk.readme = Usage
        /\ status.at # "selfRemove"
        /\ step = "done" =>
              /\ status.exit = "0"
              /\ trace[Len(trace)] = "selfRemove"

\* A run with SKIPREMOVAL=0 has completed selfRemove.
C19_Witness ==
    /\ step = "done"
    /\ SkipRemovalSet
    /\ processEnv["SKIPREMOVAL"] = "0"
    /\ trace[Len(trace)] = "selfRemove"

\* ----------------------------------------------------------------- C21
\* The blocks of s from position i in the order they stand in s: the opener
\* is the longest of the four that starts at i, the value runs to the next
\* delimiter, which closes the block in a well-formed template.
RECURSIVE NextDelimiter(_, _)
NextDelimiter(s, j) ==
    IF j > Len(s) \/ DelimiterAt(s, j) > 0 THEN j ELSE NextDelimiter(s, j + 1)

RECURSIVE BlocksFrom(_, _)
BlocksFrom(s, i) ==
    IF i > Len(s) THEN <<>>
    ELSE LET m == DelimiterAt(s, i)
         IN  IF m = 0 THEN BlocksFrom(s, i + 1)
             ELSE IF ~StartsWithAt(s, i, CodeOpen) THEN BlocksFrom(s, i + m)
             ELSE LET j == NextDelimiter(s, i + m)
                      n == DelimiterAt(s, j)
                  IN  <<[opener |-> SubSeq(s, i, i + m - 1),
                         value  |-> SubSeq(s, i + m, j - 1),
                         closer |-> SubSeq(s, j, j + n - 1)]>>
                         \o BlocksFrom(s, j + n)

BlocksOf(s) == BlocksFrom(s, 1)

\* C21: in a template without an unclosed opener the block tokens are, in
\* order, one for each block of the template: of type code for <% and <%-
\* and print for <%= and <%-=, trimming backwards exactly for <%- and <%-=,
\* trimming forward exactly for the closer -%>, and with the text between
\* opener and closer as its value; a text token has no trim attribute.
C21_OneTokenPerBlock ==
    (tokens0 # None /\ ~HasUnclosedOpener(str)) =>
        LET blocks == BlocksOf(str)
            toks   == SelectSeq(tokens0, IsBlock)
        IN  /\ Len(toks) = Len(blocks)
            /\ \A k \in 1..Len(toks) :
                  /\ DOMAIN toks[k] = {"type", "value", "trim"}
                  /\ toks[k].type = "code"
                        <=> blocks[k].opener \in {CodeOpen, CodeOpenTrim}
                  /\ toks[k].type = "print"
                        <=> blocks[k].opener \in {PrintOpen, PrintOpenTrim}
                  /\ toks[k].trim.backwards
                        <=> blocks[k].opener \in {CodeOpenTrim, PrintOpenTrim}
                  /\ toks[k].trim.forward <=> blocks[k].closer = CloseTrim
                  /\ toks[k].value = blocks[k].value
            /\ \A i \in 1..Len(tokens0) :
                  tokens0[i].type = "text" => DOMAIN tokens0[i] = {"type", "value"}

\* A template with a block <%- ... -%> and a block <%= ... %> between spaced
\* text was tokenized.
C21_Witness ==
    /\ tokens0 # None
    /\ str = Spaced \o Block(CodeOpenTrim, Foo, CloseTrim) \o Spaced
                \o Block(PrintOpen, Foo, Close) \o Spaced
    /\ Len(tokens0) = 5
    /\ tokens0[2].type = "code" /\ tokens0[4].type = "print"

\* ----------------------------------------------------------------- C22
\* Some opener among the pieces is not followed, two pieces later, by a
\* closer
UnclosedPiece(segments) ==
    \E i \in 1..Len(segments) :
        /\ segments[i] \in Openers
        /\ SegmentAt(segments, i + 2) \notin Closers

\* The pieces from index i on that are no opener, no value of a block and
\* no closer of a block
RECURSIVE OtherPiecesFrom(_, _)
OtherPiecesFrom(segments, i) ==
    IF i > Len(segments) THEN <<>>
    ELSE IF segments[i] \in Openers THEN OtherPiecesFrom(segments, i + 3)
    ELSE <<segments[i]>> \o OtherPiecesFrom(segments, i + 1)

IsText(tok) == tok.type = "text"

IsStrayCloser(tok) == IsText(tok) /\ tok.value \in Closers

\* tokenize raises exactly for an unclosed opener, and with its error
C22_OnlyParseFailure ==
    pc # "call" =>
        /\ tokens0 = None <=> UnclosedPiece(Split(str))
        /\ tokens0 = None => result = Thrown(UnclosedError)

\* The Text tokens are, in order, the pieces outside the blocks, a closer
\* without an opener among them
C22_OtherPiecesAreText ==
    tokens0 # None =>
        LET texts == SelectSeq(tokens0, IsText)
            other == OtherPiecesFrom(Split(str), 1)
        IN  /\ Len(texts) = Len(other)
            /\ \A k \in 1..Len(texts) : texts[k] = createTextToken(other[k])

\* What an executed statement of the program added to the accumulator
AppendedBy(entry) == SubSeq(entry.after, Len(entry.before) + 1, Len(entry.after))

\* A Text token that no trim changed and whose statement ran has added its
\* value to the output as it stands in the template, and a template of Text
\* tokens alone renders
C22_TextEmittedVerbatim ==
    (Finished /\ tokens0 # None) =>
        /\ \A k \in 1..Len(log) :
              LET i == log[k].seg
              IN  (IsText(tokens0[i]) /\ tokens[i] = tokens0[i])
                     => AppendedBy(log[k]) = tokens0[i].value
        /\ (\A i \in 1..Len(tokens0) : IsText(tokens0[i])) => pc = "returned"

\* C22: tokenize raises if and only if some opener is not followed, two
\* pieces later, by %> or -%>; every other piece, a closer without an opener
\* before it included, becomes a Text token with that piece as its value and
\* is emitted verbatim in the output.
C22_UnclosedIsOnlyFailure ==
    /\ C22_OnlyParseFailure
    /\ C22_OtherPiecesAreText
    /\ C22_TextEmittedVerbatim

\* A closer without an opener is a Text token and stands in the output as
\* it stands in the template
C22_StrayCloserVerbatim ==
    (Finished /\ tokens0 # None) =>
        \A i \in 1..Len(tokens0) :
            IsStrayCloser(tokens0[i]) =>
                /\ tokens[i] = tokens0[i]
                /\ \E k \in 1..Len(log) :
                      log[k].seg = i /\ AppendedBy(log[k]) = tokens0[i].value

\* ----------------------------------------------------------------- C23
\* What the statements of the program that ran added to the accumulator, in
\* order
AppendedTo(k) == Concat([j \in 1..k |-> AppendedBy(log[j])])

\* C23: the accumulator is the empty string when the program starts, for
\* every data, data with a key o included, and the value miniEjs returns is
\* what the statements of the program appended and nothing else.
C23_AccumulatorStartsEmpty ==
    (Finished /\ log # None /\ log # <<>>) =>
        /\ log[1].before = <<>>
        /\ pc = "returned" => result.value = AppendedTo(Len(log))

\* The same for data without a key o
C23_WithoutAccumulatorKey ==
    (data # None /\ O \notin DOMAIN data) => C23_AccumulatorStartsEmpty

\* ----------------------------------------------------------------- C24
\* The run has ended in the rejection handler of main
EndedInFailure == step = "failed" /\ status.exit = "1"

\* C24: whenever a run of the script ends in failure, with the message to
\* run the script again and status 1, the script file is still there, also
\* when the operation that failed is one of selfRemove.
C24_ScriptSurvivesFailure ==
    EndedInFailure => disk.script

\* The same for the failures of the steps before selfRemove
C24_BeforeSelfRemove ==
    (EndedInFailure /\ status.at # "selfRemove") => disk.script

====
